---- MODULE Spec2Model ----
(***************************************************************************)
(* Model of the SSRGAN training orchestration (src/trainer.py) and of the  *)
(* shape arithmetic of the SRGAN generator (src/ssrgan/models/srgan.py).   *)
(*                                                                         *)
(* Trainer.run is modelled statement by statement: the program counter pc  *)
(* names the statement that runs next.  Test metrics (PSNR, LPIPS) are     *)
(* values produced by the networks; they are drawn from small sets of      *)
(* integers, which keeps the order comparisons the code makes on them.     *)
(* Files (the netP / netG checkpoints, weights/DSNet.pth) belong to the    *)
(* environment: their content is chosen when the code reads them.          *)
(***************************************************************************)
EXTENDS Integers, Sequences, FiniteSets, TLC

\* ------------------------------------------------------------------ bounds
MaxLen == 2        \* largest len(train_dataloader)
MaxIters == 2      \* largest --psnr-iters / --iters / --start-*-iter / "iter"
MaxPsnr == 1       \* largest PSNR value a test returns
MaxLpips == 2      \* largest LPIPS value a test returns
MaxN == 2          \* largest batch size given to Generator.forward
MaxHW == 2         \* largest input height / width given to Generator.forward

\* ------------------------------------------------------- program constants
InitBestPsnr == 0  \* best_psnr = 0.
InitBestLpips == 1 \* best_lpips = 1.
NumResidualBlocks == 16  \* for _ in range(16): ResidualBlock(64)
NumUpsampleBlocks == 2   \* for _ in range(2): UpsampleBlock(256)
ImageEvery == 1000       \* if iters % 1000 == 0: save the images

VARIABLES
    args,              \* self.args: the fields run() reads and writes
    checkpoint,        \* local of run(): the checkpoint read last
    len,               \* len(self.train_dataloader)
    start_psnr_epoch,  \* self.start_psnr_epoch
    psnr_epochs,       \* self.psnr_epochs
    start_epoch,       \* self.start_epoch
    epochs,            \* self.epochs
    best_psnr,         \* local of run()
    best_lpips,        \* local of run()
    pc,                \* next statement of run()
    epoch,             \* loop variable psnr_epoch / epoch
    i,                 \* loop variable i of train_psnr / train_gan
    psnr_value,        \* local of run()
    lpips_value,       \* local of run()
    ckpt,              \* the checkpoint written by the last save_checkpoint
    dsnet,             \* TRUE iff this run has written weights/DSNet.pth
    hist,              \* history of the run (observation only)
    gen,               \* one call of Generator.forward
    gan                \* one call of train_gan, statement by statement

vars == <<args, checkpoint, len, start_psnr_epoch, psnr_epochs, start_epoch,
          epochs, best_psnr, best_lpips, pc, epoch, i, psnr_value, lpips_value,
          ckpt, dsnet, hist, gen, gan>>

\* ---------------------------------------------------------------- helpers
\* Python's built-in max / min on two numbers.
Max(a, b) == IF a >= b THEN a ELSE b

Min(a, b) == IF a <= b THEN a ELSE b

\* math.floor(a / b) and math.ceil(a / b) for a >= 0, b >= 1.
Floor(a, b) == a \div b

Ceil(a, b) == (a + b - 1) \div b

\* self.start_psnr_epoch = math.floor(args.start_psnr_iter / len(dataloader))
StartPsnrEpoch(a, n) == Floor(a.start_psnr_iter, n)

\* self.psnr_epochs = math.ceil(args.psnr_iters / len(dataloader))
PsnrEpochs(a, n) == Ceil(a.psnr_iters, n)

\* self.start_epoch = math.floor(args.start_iter / len(dataloader))
StartEpoch(a, n) == Floor(a.start_iter, n)

\* self.epochs = math.ceil(args.iters / len(dataloader))
Epochs(a, n) == Ceil(a.iters, n)

\* iters = i + epoch * len(dataloader) + 1 (train_psnr and train_gan)
TrainIters(ii, e, n) == ii + e * n + 1

\* iters = (epoch + 1) * len(self.train_dataloader) (run, both phases)
CkptIters(e, n) == (e + 1) * n

\* Variant: the guard written with <=.
PsnrGuardHoldsLe(a) == a.start_psnr_iter <= a.psnr_iters

\* if args.start_psnr_iter < args.psnr_iters:
PsnrGuardHolds(a) == a.start_psnr_iter < a.psnr_iters

\* if args.start_iter < args.iters:
GanGuardHolds(a) == a.start_iter < a.iters

\* Variant: a tie with the previous best counts as best.
IsBestPsnrGe(pv, bp) == pv >= bp

\* is_best = psnr_value > best_psnr
IsBestPsnr(pv, bp) == pv > bp

\* Variant: the GAN flag taken from the PSNR, as in the pretraining loop.
IsBestGanByPsnr(pv, bp, lv, bl) == pv > bp

\* is_best = lpips_value < best_lpips, where psnr_value and best_psnr are
\* in scope but not read
IsBestGan(pv, bp, lv, bl) == lv < bl

\* Variant: the last PSNR stored instead of the maximum.
NewBestPsnrLast(pv, bp) == pv

\* best_psnr = max(psnr_value, best_psnr) (both phases)
NewBestPsnr(pv, bp) == Max(pv, bp)

\* best_lpips = min(lpips_value, best_lpips)
NewBestLpips(lv, bl) == Min(lv, bl)

\* Control flow of run(): the statement that follows train_psnr(...), the one
\* that follows the pretraining if/else, the one that follows the GAN
\* if/else (the end of run).
\* Variants: the checkpoint saved without the evaluation; pretraining
\* entered again after the GAN loop.
AfterTrainPsnrNoTest == "psnr_save"

AfterGanPhaseAgain == "psnr_guard"

AfterTrainPsnr == "psnr_test"

AfterPsnrPhase == "load_best"

AfterGanPhase == "done"

NoCkpt == [phase |-> "none"]

\* Checkpoint files a run of this program can have written: "iter" is
\* (epoch + 1) * len(dataloader) >= 1 of the run that wrote it, best_psnr a
\* maximum with 0. and best_lpips a minimum with 1.  Only the keys that
\* run() reads are kept.
NetPFiles == [phase : {"psnr"}, iter : 1..MaxIters, best_psnr : 0..MaxPsnr]

NetGFiles == [phase : {"gan"}, iter : 1..MaxIters,
              best_lpips : 0..InitBestLpips]

\* ------------------------------------------------------ tensor shapes
\* A tensor is its shape (N, C, H, W); Bad is the outcome of an operation
\* that raises.
Shape(n, c, h, w) == [ok |-> TRUE, n |-> n, c |-> c, h |-> h, w |-> w]

Bad == [ok |-> FALSE, n |-> 0, c |-> 0, h |-> 0, w |-> 0]

\* nn.Conv2d(cin, cout, kernel_size=k, stride=st, padding=p): the input must
\* have cin channels and the padded input must cover the kernel; the output
\* size is floor((size + 2p - k) / st) + 1.
Conv2d(x, cin, cout, k, st, p) ==
    IF ~x.ok \/ x.c # cin \/ x.h + 2 * p < k \/ x.w + 2 * p < k
    THEN Bad
    ELSE Shape(x.n, cout, (x.h + 2 * p - k) \div st + 1,
               (x.w + 2 * p - k) \div st + 1)

\* nn.BatchNorm2d(features): the input must have that many channels; in
\* training mode torch refuses an input with a single value per channel
\* (N * H * W = 1, "Expected more than 1 value per channel when training").
BatchNorm2d(x, features, training) ==
    IF ~x.ok \/ x.c # features \/ (training /\ x.n * x.h * x.w = 1)
    THEN Bad
    ELSE x

\* nn.PReLU(): one shared parameter, any shape.
PReLU(x) == x

\* nn.PixelShuffle(upscale_factor=r): (N, C, H, W) -> (N, C / r^2, rH, rW).
PixelShuffle(x, r) ==
    IF ~x.ok \/ x.c % (r * r) # 0
    THEN Bad
    ELSE Shape(x.n, x.c \div (r * r), x.h * r, x.w * r)

\* torch.add / + : shapes are broadcast, dimension by dimension.
BroadcastDim(a, b) == IF a = b THEN a ELSE IF a = 1 THEN b ELSE IF b = 1 THEN a ELSE 0

Add(x, y) ==
    IF ~x.ok \/ ~y.ok THEN Bad
    ELSE LET n == BroadcastDim(x.n, y.n)
             c == BroadcastDim(x.c, y.c)
             h == BroadcastDim(x.h, y.h)
             w == BroadcastDim(x.w, y.w)
         IN  IF n = 0 \/ c = 0 \/ h = 0 \/ w = 0 THEN Bad ELSE Shape(n, c, h, w)

\* ResidualBlock.forward up to the addition: conv1, bn1, prelu, conv2, bn2.
ResidualBody(x, channels, training) ==
    BatchNorm2d(
        Conv2d(
            PReLU(BatchNorm2d(Conv2d(x, channels, channels, 3, 1, 1),
                              channels, training)),
            channels, channels, 3, 1, 1),
        channels, training)

\* ResidualBlock.forward: return out + input
ResidualBlock(x, channels, training) ==
    Add(ResidualBody(x, channels, training), x)

\* Variant: the convolution built with `channels` input channels.
UpsampleBlockWide(x, channels) ==
    PReLU(PixelShuffle(Conv2d(x, channels, channels, 3, 1, 1), 2))

\* UpsampleBlock.forward: conv (channels // 4 -> channels), pixel shuffle, prelu.
UpsampleBlock(x, channels) ==
    PReLU(PixelShuffle(Conv2d(x, channels \div 4, channels, 3, 1, 1), 2))

\* Generator: self.conv1, self.conv2 and self.conv3.
GenConv1Layer(x) == PReLU(Conv2d(x, 3, 64, 9, 1, 4))

GenConv2Layer(x, training) ==
    BatchNorm2d(Conv2d(x, 64, 64, 3, 1, 1), 64, training)

GenConv3Layer(x) == Conv2d(x, 64, 3, 9, 1, 4)

\* No call of forward in progress.
GenIdle == [pc |-> "idle", training |-> FALSE, input |-> Bad, out |-> Bad,
            out1 |-> Bad, out2 |-> Bad, k |-> 0, skips_equal |-> TRUE]

\* No tensor bound yet to a name of train_gan; no call of train_gan in
\* progress.
NoTensor == [g |-> -1, batch |-> -1]

NoLoss == [d |-> -1, sr |-> NoTensor]

GanIdle == [pc |-> "idle", epoch |-> 0, len |-> 1, total_iters |-> 0,
            i |-> 0, g_ver |-> 0, d_ver |-> 0, sr |-> NoTensor,
            d_loss |-> NoLoss, g_loss |-> NoLoss, ev |-> << >>,
            sr_first |-> NoTensor, d_before |-> 0, d_applied |-> FALSE]

\* ------------------------------------------------------------------- Init
HistInit ==
    [psnr_steps |-> 0, gan_steps |-> 0,
     last_psnr_iter |-> 0, last_gan_iter |-> 0,
     first_psnr_epoch |-> -1, first_gan_epoch |-> -1,
     psnr_epochs_run |-> 0, psnr_tests |-> 0, psnr_saves |-> 0,
     gan_epochs_run |-> 0, gan_tests |-> 0, gan_saves |-> 0,
     elog |-> << >>,
     max_psnr |-> InitBestPsnr, min_lpips |-> InitBestLpips,
     prev_best_psnr |-> InitBestPsnr, prev_best_lpips |-> InitBestLpips]

Init ==
    /\ len \in 1..MaxLen
    /\ args \in [start_psnr_iter : 0..MaxIters, psnr_iters : 0..MaxIters,
                 start_iter : 0..MaxIters, iters : 0..MaxIters,
                 netP : BOOLEAN, netG : BOOLEAN]
    /\ checkpoint = NoCkpt
    /\ start_psnr_epoch = StartPsnrEpoch(args, len)
    /\ psnr_epochs = PsnrEpochs(args, len)
    /\ start_epoch = StartEpoch(args, len)
    /\ epochs = Epochs(args, len)
    /\ best_psnr = InitBestPsnr
    /\ best_lpips = InitBestLpips
    /\ pc = "load_netP"
    /\ epoch = 0
    /\ i = 0
    /\ psnr_value = 0
    /\ lpips_value = 0
    /\ ckpt = NoCkpt
    /\ dsnet = FALSE
    /\ hist = HistInit
    /\ gen = GenIdle
    /\ gan = GanIdle

\* ---------------------------------------------------------------- actions
TrainerState == <<len, start_psnr_epoch, psnr_epochs, start_epoch, epochs>>

\* run(): best_psnr = 0.; best_lpips = 1.; if args.netP != "": load it.
LoadNetP ==
    /\ pc = "load_netP"
    /\ IF args.netP
       THEN \E f \in NetPFiles :
            /\ checkpoint' = f
            /\ args' = [args EXCEPT !.start_psnr_iter = f.iter]
            /\ best_psnr' = f.best_psnr
       ELSE /\ checkpoint' = checkpoint
            /\ args' = args
            /\ best_psnr' = InitBestPsnr
    /\ best_lpips' = InitBestLpips
    /\ LET initial == IF args.netP THEN checkpoint'.best_psnr
                       ELSE InitBestPsnr IN
       hist' = [hist EXCEPT !.max_psnr = initial, !.prev_best_psnr = initial]
    /\ pc' = "psnr_guard"
    /\ UNCHANGED <<TrainerState, gen, gan, epoch, i, psnr_value, lpips_value, ckpt, dsnet>>

\* if args.start_psnr_iter < args.psnr_iters: for ... else: logger.info(...)
PsnrGuard ==
    /\ pc = "psnr_guard"
    /\ IF PsnrGuardHolds(args)
       THEN /\ pc' = "psnr_loop"
            /\ epoch' = start_psnr_epoch
       ELSE /\ pc' = AfterPsnrPhase
            /\ epoch' = epoch
    /\ UNCHANGED <<hist, args, checkpoint, TrainerState, gen, gan, best_psnr, best_lpips, i, psnr_value,
                   lpips_value, ckpt, dsnet>>

\* for psnr_epoch in range(self.start_psnr_epoch, self.psnr_epochs):
\* enters train_psnr (model.train(); enumerate(dataloader)) or leaves the loop.
PsnrLoop ==
    /\ pc = "psnr_loop"
    /\ IF epoch < psnr_epochs
       THEN /\ pc' = "psnr_train"
            /\ i' = 0
            /\ hist' = [hist EXCEPT
                    !.psnr_epochs_run = @ + 1,
                    !.first_psnr_epoch = IF @ = -1 THEN epoch ELSE @,
                    !.prev_best_psnr = best_psnr,
                    !.elog = << >>]
       ELSE /\ pc' = AfterPsnrPhase
            /\ i' = i
            /\ hist' = hist
    /\ UNCHANGED <<args, checkpoint, TrainerState, gen, gan, best_psnr, best_lpips, epoch,
                   psnr_value, lpips_value, ckpt, dsnet>>

\* One iteration of the loop of train_psnr: the optimizer step, then
\* iters = i + epoch * len(dataloader) + 1 and the exit test on total_iters.
\* The loop ends after the last batch or at the break; scheduler.step() follows.
TrainPsnrStep ==
    /\ pc = "psnr_train"
    /\ LET iters == TrainIters(i, epoch, len) IN
       /\ hist' = [hist EXCEPT !.psnr_steps = @ + 1,
                               !.last_psnr_iter = iters,
                               !.elog = Append(@, "step")]
       /\ IF iters = args.psnr_iters \/ i + 1 = len
          THEN /\ pc' = AfterTrainPsnr
               /\ i' = i
          ELSE /\ pc' = "psnr_train"
               /\ i' = i + 1
    /\ UNCHANGED <<args, checkpoint, TrainerState, gen, gan, best_psnr, best_lpips, epoch,
                   psnr_value, lpips_value, ckpt, dsnet>>

\* psnr_value = test_psnr(...); iters = (psnr_epoch + 1) * len(dataloader)
TestPsnr ==
    /\ pc = "psnr_test"
    /\ \E v \in 0..MaxPsnr :
        /\ psnr_value' = v
        /\ hist' = [hist EXCEPT !.psnr_tests = @ + 1,
                                !.max_psnr = IF v > @ THEN v ELSE @,
                                !.elog = Append(@, "test")]
    /\ pc' = "psnr_save"
    /\ UNCHANGED <<args, checkpoint, TrainerState, gen, gan, best_psnr, best_lpips, epoch, i,
                   lpips_value, ckpt, dsnet>>

\* is_best = psnr_value > best_psnr; best_psnr = max(psnr_value, best_psnr);
\* save_checkpoint({...}, is_best, "DSNet_iter_<iters>.pth", "DSNet.pth")
SavePsnr ==
    /\ pc = "psnr_save"
    /\ LET is_best == IsBestPsnr(psnr_value, best_psnr)
           nb == NewBestPsnr(psnr_value, best_psnr) IN
       /\ best_psnr' = nb
       /\ ckpt' = [phase |-> "psnr", iter |-> CkptIters(epoch, len),
                   best_psnr |-> nb, best_lpips |-> best_lpips,
                   is_best |-> is_best, epoch |-> epoch]
       /\ dsnet' = (dsnet \/ is_best)
    /\ hist' = [hist EXCEPT !.psnr_saves = @ + 1, !.elog = Append(@, "save")]
    /\ epoch' = epoch + 1
    /\ pc' = "psnr_loop"
    /\ UNCHANGED <<args, checkpoint, TrainerState, gen, gan, best_lpips, i, psnr_value, lpips_value>>

\* self.generator.load_state_dict(torch.load("weights/DSNet.pth", device)):
\* torch.load raises when the file does not exist, which ends run().  The
\* file exists when this run wrote it, or when it was there before the run.
LoadBest ==
    /\ pc = "load_best"
    /\ \E before \in BOOLEAN :
        pc' = IF dsnet \/ before THEN "load_netG" ELSE "crashed"
    /\ UNCHANGED <<args, checkpoint, TrainerState, gen, gan, best_psnr, best_lpips, epoch, i,
                   psnr_value, lpips_value, ckpt, dsnet, hist>>

\* if args.netG != "": checkpoint = torch.load(args.netG);
\* self.args.start_psnr_iter = checkpoint["iter"]; best_lpips = ...
LoadNetG ==
    /\ pc = "load_netG"
    /\ IF args.netG
       THEN \E f \in NetGFiles :
            /\ checkpoint' = f
            /\ args' = [args EXCEPT !.start_psnr_iter = f.iter]
            /\ best_lpips' = f.best_lpips
       ELSE /\ checkpoint' = checkpoint
            /\ args' = args
            /\ best_lpips' = best_lpips
    /\ LET initial == IF args.netG THEN checkpoint'.best_lpips
                       ELSE InitBestLpips IN
       hist' = [hist EXCEPT !.min_lpips = initial, !.prev_best_lpips = initial]
    /\ pc' = "gan_guard"
    /\ UNCHANGED <<TrainerState, gen, gan, best_psnr, epoch, i, psnr_value, lpips_value,
                   ckpt, dsnet>>

\* if args.start_iter < args.iters: for ... else: logger.info(...)
GanGuard ==
    /\ pc = "gan_guard"
    /\ IF GanGuardHolds(args)
       THEN /\ pc' = "gan_loop"
            /\ epoch' = start_epoch
       ELSE /\ pc' = AfterGanPhase
            /\ epoch' = epoch
    /\ UNCHANGED <<hist, args, checkpoint, TrainerState, gen, gan, best_psnr, best_lpips, i, psnr_value,
                   lpips_value, ckpt, dsnet>>

\* for epoch in range(self.start_epoch, self.epochs):
GanLoop ==
    /\ pc = "gan_loop"
    /\ IF epoch < epochs
       THEN /\ pc' = "gan_train"
            /\ i' = 0
            /\ hist' = [hist EXCEPT
                    !.gan_epochs_run = @ + 1,
                    !.first_gan_epoch = IF @ = -1 THEN epoch ELSE @,
                    !.prev_best_psnr = best_psnr,
                    !.prev_best_lpips = best_lpips,
                    !.elog = << >>]
       ELSE /\ pc' = AfterGanPhase
            /\ i' = i
            /\ hist' = hist
    /\ UNCHANGED <<args, checkpoint, TrainerState, gen, gan, best_psnr, best_lpips, epoch,
                   psnr_value, lpips_value, ckpt, dsnet>>

\* One iteration of the loop of train_gan: discriminator step, generator
\* step, iters = i + epoch * len(dataloader) + 1, exit test on total_iters.
TrainGanStep ==
    /\ pc = "gan_train"
    /\ LET iters == TrainIters(i, epoch, len) IN
       /\ hist' = [hist EXCEPT !.gan_steps = @ + 1,
                               !.last_gan_iter = iters,
                               !.elog = Append(@, "step")]
       /\ IF iters = args.iters \/ i + 1 = len
          THEN /\ pc' = "gan_test"
               /\ i' = i
          ELSE /\ pc' = "gan_train"
               /\ i' = i + 1
    /\ UNCHANGED <<args, checkpoint, TrainerState, gen, gan, best_psnr, best_lpips, epoch,
                   psnr_value, lpips_value, ckpt, dsnet>>

\* psnr_value, lpips_value = test_gan(...)
TestGan ==
    /\ pc = "gan_test"
    /\ \E v \in 0..MaxPsnr, w \in 0..MaxLpips :
        /\ psnr_value' = v
        /\ lpips_value' = w
        /\ hist' = [hist EXCEPT !.gan_tests = @ + 1,
                                !.max_psnr = IF v > @ THEN v ELSE @,
                                !.min_lpips = IF w < @ THEN w ELSE @,
                                !.elog = Append(@, "test")]
    /\ pc' = "gan_save"
    /\ UNCHANGED <<args, checkpoint, TrainerState, gen, gan, best_psnr, best_lpips, epoch, i,
                   ckpt, dsnet>>

\* is_best = lpips_value < best_lpips; best_psnr = max(...);
\* best_lpips = min(...); torch.save(discriminator); save_checkpoint(...)
SaveGan ==
    /\ pc = "gan_save"
    /\ LET is_best == IsBestGan(psnr_value, best_psnr, lpips_value, best_lpips)
           nb == NewBestPsnr(psnr_value, best_psnr)
           nl == NewBestLpips(lpips_value, best_lpips) IN
       /\ best_psnr' = nb
       /\ best_lpips' = nl
       /\ ckpt' = [phase |-> "gan", iter |-> CkptIters(epoch, len),
                   best_psnr |-> nb, best_lpips |-> nl,
                   is_best |-> is_best, epoch |-> epoch]
    /\ hist' = [hist EXCEPT !.gan_saves = @ + 1, !.elog = Append(@, "save")]
    /\ epoch' = epoch + 1
    /\ pc' = "gan_loop"
    /\ UNCHANGED <<args, checkpoint, TrainerState, gen, gan, i, psnr_value, lpips_value, dsnet>>

Next ==
    \/ LoadNetP
    \/ PsnrGuard
    \/ PsnrLoop
    \/ TrainPsnrStep
    \/ TestPsnr
    \/ SavePsnr
    \/ LoadBest
    \/ LoadNetG
    \/ GanGuard
    \/ GanLoop
    \/ TrainGanStep
    \/ TestGan
    \/ SaveGan

Spec == Init /\ [][Next]_vars

\* ----------------------------------------------------------------- claims
PsnrPcs == {"psnr_guard", "psnr_loop", "psnr_train", "psnr_test", "psnr_save"}

GanPcs == {"gan_guard", "gan_loop", "gan_train", "gan_test", "gan_save"}

\* Statements at which args.start_psnr_iter still is the value the
\* pretraining guard reads (LoadNetG has not overwritten it).
PsnrIterValid == PsnrPcs \cup {"load_best", "crashed", "load_netG"}

AllSteps(log, n) == \A k \in 1..n : log[k] = "step"

\* C1: a pretraining step (train_psnr iteration) is executed only while no
\* GAN step (train_gan iteration) has been executed in the run.
C1_TwoPhase ==
    [][hist'.psnr_steps # hist.psnr_steps => hist.gan_steps = 0]_vars

C1_Witness == hist.psnr_steps > 0 /\ hist.gan_steps > 0

\* C2: in both phases the events of an epoch are: one or more training
\* steps, then one evaluation, then one checkpoint save; at every point the
\* numbers of epochs started, evaluations and saves of a phase agree with
\* that order, and between epochs and after the phase they are equal.
C2_EpochOrder ==
    LET log == hist.elog
        n == Len(log)
        started == hist.psnr_epochs_run + hist.gan_epochs_run
        tests == hist.psnr_tests + hist.gan_tests
        saves == hist.psnr_saves + hist.gan_saves
    IN  /\ hist.psnr_saves <= hist.psnr_tests
        /\ hist.psnr_tests <= hist.psnr_epochs_run
        /\ hist.gan_saves <= hist.gan_tests
        /\ hist.gan_tests <= hist.gan_epochs_run
        /\ pc \in {"psnr_train", "gan_train"} =>
              /\ AllSteps(log, n)
              /\ tests = started - 1 /\ saves = started - 1
        /\ pc \in {"psnr_test", "gan_test"} =>
              /\ n >= 1 /\ AllSteps(log, n)
              /\ tests = started - 1 /\ saves = started - 1
        /\ pc \in {"psnr_save", "gan_save"} =>
              /\ n >= 2 /\ AllSteps(log, n - 1) /\ log[n] = "test"
              /\ tests = started /\ saves = started - 1
        /\ pc \notin {"psnr_train", "gan_train", "psnr_test", "gan_test",
                      "psnr_save", "gan_save"} =>
              /\ hist.psnr_saves = hist.psnr_epochs_run
              /\ hist.psnr_tests = hist.psnr_epochs_run
              /\ hist.gan_saves = hist.gan_epochs_run
              /\ hist.gan_tests = hist.gan_epochs_run
              /\ started > 0 =>
                    /\ n >= 3 /\ AllSteps(log, n - 2)
                    /\ log[n - 1] = "test" /\ log[n] = "save"

C2_Witness ==
    /\ pc = "done"
    /\ hist.psnr_saves >= 2
    /\ hist.gan_saves >= 2
    /\ Len(hist.elog) = 3

\* C3: when the guard of a phase holds, no training step of the phase has a
\* global iteration number above the phase's budget, and once the phase is
\* over the last step it executed has exactly the budget as its number.
C3_IterBudget ==
    /\ (pc \in PsnrIterValid /\ args.start_psnr_iter < args.psnr_iters) =>
          /\ hist.last_psnr_iter <= args.psnr_iters
          /\ pc \in {"load_best", "crashed", "load_netG"} =>
                hist.last_psnr_iter = args.psnr_iters
    /\ args.start_iter < args.iters =>
          /\ hist.last_gan_iter <= args.iters
          /\ pc = "done" => hist.last_gan_iter = args.iters

\* C4: every checkpoint saved stores as best_psnr the maximum of the initial
\* best (0., or the best_psnr of the netP checkpoint) and of all test PSNR
\* values measured so far in the run, and never less than the checkpoint
\* saved before it.
C4_BestPsnr ==
    [][ckpt' # ckpt =>
          /\ ckpt'.best_psnr = hist'.max_psnr
          /\ ckpt # NoCkpt => ckpt'.best_psnr >= ckpt.best_psnr]_vars

C4_Witness ==
    /\ ckpt # NoCkpt
    /\ ckpt.phase = "gan"
    /\ pc = "gan_loop"
    /\ hist.psnr_saves > 0
    /\ psnr_value < ckpt.best_psnr
    /\ ckpt.best_psnr > InitBestPsnr

\* C5: a pretraining checkpoint is flagged is_best exactly when the epoch's
\* test PSNR is strictly greater than the best PSNR known before the epoch.
C5_BestFlagPsnr ==
    [][pc = "psnr_save" =>
          (ckpt'.is_best <=> psnr_value > hist.prev_best_psnr)]_vars

C5_Witness ==
    /\ pc = "psnr_loop"
    /\ ckpt # NoCkpt
    /\ ~ckpt.is_best
    /\ psnr_value = best_psnr
    /\ psnr_value > InitBestPsnr
    /\ psnr_value = hist.prev_best_psnr

\* C6: a GAN checkpoint is flagged is_best exactly when the epoch's LPIPS is
\* strictly lower than the best LPIPS known before the epoch (whatever the
\* epoch's PSNR); the best_lpips it stores is the minimum of the initial
\* value (1., or the best_lpips of the netG checkpoint) and of all LPIPS
\* values measured so far, and never more than in the GAN checkpoint before.
C6_BestLpips ==
    [][pc = "gan_save" =>
          /\ ckpt'.is_best <=> lpips_value < hist.prev_best_lpips
          /\ ckpt'.best_lpips = hist'.min_lpips
          /\ (ckpt # NoCkpt /\ ckpt.phase = "gan") =>
                ckpt'.best_lpips <= ckpt.best_lpips]_vars

C6_Witness ==
    /\ pc = "gan_loop"
    /\ ckpt # NoCkpt
    /\ ckpt.phase = "gan"
    /\ ckpt.is_best
    /\ psnr_value < hist.prev_best_psnr
    /\ hist.gan_saves >= 2

\* C8: if start_psnr_iter >= psnr_iters at the pretraining guard, the run
\* has no pretraining step, evaluation or save; if start_iter >= iters, it
\* has no GAN step, evaluation or save.
C8_GuardSkips ==
    /\ (pc \in PsnrIterValid /\ args.start_psnr_iter >= args.psnr_iters) =>
          /\ hist.psnr_steps = 0
          /\ hist.psnr_tests = 0
          /\ hist.psnr_saves = 0
    /\ args.start_iter >= args.iters =>
          /\ hist.gan_steps = 0
          /\ hist.gan_tests = 0
          /\ hist.gan_saves = 0

C8_Witness ==
    /\ pc = "done"
    /\ args.netP
    /\ ~args.netG
    /\ args.start_psnr_iter >= args.psnr_iters
    /\ args.psnr_iters > 0
    /\ args.start_iter >= args.iters
    /\ args.iters > 0

\* C9: with a netP checkpoint, the first pretraining epoch executed is
\* floor(checkpoint "iter" / len(dataloader)).
C9_ResumePsnr ==
    (args.netP /\ pc \in PsnrPcs /\ hist.first_psnr_epoch # -1) =>
        hist.first_psnr_epoch = Floor(checkpoint.iter, len)

\* C10: with a netG checkpoint, the checkpoint's "iter" is the GAN phase's
\* start iteration: no GAN step is executed when it is >= iters, and
\* otherwise the first GAN epoch executed is floor("iter" / len(dataloader)).
C10_ResumeGan ==
    (args.netG /\ pc \in GanPcs \cup {"done"}) =>
        /\ args.start_iter = checkpoint.iter
        /\ checkpoint.iter >= args.iters => hist.gan_steps = 0
        /\ (checkpoint.iter < args.iters /\ pc = "done") =>
              hist.first_gan_epoch = Floor(checkpoint.iter, len)

\* C11: the "iter" stored in a checkpoint is the global iteration number of
\* the last training step executed before the checkpoint was saved, in the
\* pretraining phase and in the GAN phase.
C11_CkptIter ==
    /\ (pc = "psnr_loop" /\ ckpt # NoCkpt /\ ckpt.phase = "psnr") =>
          ckpt.iter = hist.last_psnr_iter
    /\ (pc = "gan_loop" /\ ckpt # NoCkpt /\ ckpt.phase = "gan") =>
          ckpt.iter = hist.last_gan_iter

\* ------------------------------------------------- Generator.forward
TrainerVars == <<args, checkpoint, len, start_psnr_epoch, psnr_epochs,
                 start_epoch, epochs, best_psnr, best_lpips, pc, epoch, i,
                 psnr_value, lpips_value, ckpt, dsnet, hist>>

\* A Generator in training or evaluation mode is called on a tensor of shape
\* (N, 3, H, W).
InitGen ==
    /\ len = 1
    /\ args = [start_psnr_iter |-> 0, psnr_iters |-> 0, start_iter |-> 0,
               iters |-> 0, netP |-> FALSE, netG |-> FALSE]
    /\ checkpoint = NoCkpt
    /\ start_psnr_epoch = 0 /\ psnr_epochs = 0
    /\ start_epoch = 0 /\ epochs = 0
    /\ best_psnr = InitBestPsnr /\ best_lpips = InitBestLpips
    /\ pc = "forward"
    /\ epoch = 0 /\ i = 0 /\ psnr_value = 0 /\ lpips_value = 0
    /\ ckpt = NoCkpt /\ dsnet = FALSE /\ hist = HistInit
    /\ \E n \in 1..MaxN, h \in 1..MaxHW, w \in 1..MaxHW, t \in BOOLEAN :
        gen = [pc |-> "conv1", training |-> t, input |-> Shape(n, 3, h, w),
               out |-> Shape(n, 3, h, w), out1 |-> Bad, out2 |-> Bad,
               k |-> 0, skips_equal |-> TRUE]
    /\ gan = GanIdle

\* The statement after one that produced r: the next layer, or the
\* exception leaving forward.
GenGoto(r, next) == IF r.ok THEN next ELSE "raised"

\* out1 = self.conv1(input)
GenConv1 ==
    /\ gen.pc = "conv1"
    /\ LET r == GenConv1Layer(gen.input) IN
       gen' = [gen EXCEPT !.out1 = r, !.out = r, !.k = 0,
                          !.pc = GenGoto(r, "trunk")]
    /\ UNCHANGED <<TrainerVars, gan>>

\* out = self.Trunk(out1): one ResidualBlock(64) of the Sequential
GenTrunk ==
    /\ gen.pc = "trunk"
    /\ gen.k < NumResidualBlocks
    /\ LET r == ResidualBlock(gen.out, 64, gen.training) IN
       gen' = [gen EXCEPT
                 !.out = r, !.k = @ + 1,
                 !.skips_equal =
                     @ /\ ResidualBody(gen.out, 64, gen.training) = gen.out,
                 !.pc = GenGoto(r, IF gen.k + 1 = NumResidualBlocks
                                   THEN "conv2" ELSE "trunk")]
    /\ UNCHANGED <<TrainerVars, gan>>

\* out2 = self.conv2(out)
GenConv2 ==
    /\ gen.pc = "conv2"
    /\ LET r == GenConv2Layer(gen.out, gen.training) IN
       gen' = [gen EXCEPT !.out2 = r, !.pc = GenGoto(r, "add")]
    /\ UNCHANGED <<TrainerVars, gan>>

\* out = torch.add(out1, out2)
GenAdd ==
    /\ gen.pc = "add"
    /\ LET r == Add(gen.out1, gen.out2) IN
       gen' = [gen EXCEPT !.out = r, !.k = 0,
                          !.skips_equal = @ /\ gen.out1 = gen.out2,
                          !.pc = GenGoto(r, "upsampling")]
    /\ UNCHANGED <<TrainerVars, gan>>

\* out = self.upsampling(out): one UpsampleBlock(256) of the Sequential
GenUpsample ==
    /\ gen.pc = "upsampling"
    /\ gen.k < NumUpsampleBlocks
    /\ LET r == UpsampleBlock(gen.out, 256) IN
       gen' = [gen EXCEPT
                 !.out = r, !.k = @ + 1,
                 !.pc = GenGoto(r, IF gen.k + 1 = NumUpsampleBlocks
                                   THEN "conv3" ELSE "upsampling")]
    /\ UNCHANGED <<TrainerVars, gan>>

\* out = self.conv3(out); return out
GenConv3 ==
    /\ gen.pc = "conv3"
    /\ LET r == GenConv3Layer(gen.out) IN
       gen' = [gen EXCEPT !.out = r, !.pc = GenGoto(r, "return")]
    /\ UNCHANGED <<TrainerVars, gan>>

NextGen ==
    \/ GenConv1
    \/ GenTrunk
    \/ GenConv2
    \/ GenAdd
    \/ GenUpsample
    \/ GenConv3

SpecGen == InitGen /\ [][NextGen]_vars

TrainerNotRunning ==
    /\ len = 1
    /\ args = [start_psnr_iter |-> 0, psnr_iters |-> 0, start_iter |-> 0,
               iters |-> 0, netP |-> FALSE, netG |-> FALSE]
    /\ checkpoint = NoCkpt
    /\ start_psnr_epoch = 0 /\ psnr_epochs = 0
    /\ start_epoch = 0 /\ epochs = 0
    /\ best_psnr = InitBestPsnr /\ best_lpips = InitBestLpips
    /\ pc = "train_gan"
    /\ epoch = 0 /\ i = 0 /\ psnr_value = 0 /\ lpips_value = 0
    /\ ckpt = NoCkpt /\ dsnet = FALSE /\ hist = HistInit

\* run() calls train_gan(epoch, total_iters=args.iters, dataloader) with
\* epoch in range(start_epoch, ceil(iters / len(dataloader))); the loop over
\* the dataloader starts at i = 0.
InitGan ==
    /\ TrainerNotRunning
    /\ gen = GenIdle
    /\ \E n \in 1..MaxLen, t \in 0..MaxIters, e \in 0..MaxIters :
        /\ e < Ceil(t, n)
        /\ gan = [GanIdle EXCEPT !.pc = "update_d", !.epoch = e, !.len = n,
                                 !.total_iters = t]

\* sr = generator(lr)
Generate(g) == [g |-> g.g_ver, batch |-> g.i]

\* fake_output = discriminator(sr.detach()) in the discriminator update
DLossInputs(g, sr) == [d |-> g.d_ver, sr |-> sr]

\* Variant: the generator loss built from the fake_output of the
\* discriminator update, computed before the discriminator step.
GLossInputsStale(g) == g.d_loss

\* fake_output = discriminator(sr) in the generator update: the name sr as
\* bound at that point, the discriminator as it is at that point
GLossInputs(g) == [d |-> g.d_ver, sr |-> g.sr]

\* (1) Update D network: zero_grad, sr = generator(lr), the discriminator's
\* outputs on hr and sr.detach(), d_loss, scaler.scale(d_loss).backward()
GanUpdateD ==
    /\ gan.pc = "update_d"
    /\ LET sr == Generate(gan) IN
       gan' = [gan EXCEPT !.sr = sr, !.d_loss = DLossInputs(gan, sr),
                          !.ev = <<"generate">>, !.sr_first = sr,
                          !.d_before = gan.d_ver, !.pc = "step_d"]
    /\ UNCHANGED <<TrainerVars, gen>>

\* scaler.step(discriminator_optimizer); scaler.update(): optimizer.step()
\* is called unless the gradients contain infs or NaNs.
GanStepD ==
    /\ gan.pc = "step_d"
    /\ \E applied \in BOOLEAN :
        gan' = [gan EXCEPT !.d_ver = IF applied THEN @ + 1 ELSE @,
                           !.d_applied = applied,
                           !.ev = Append(@, "step_d"), !.pc = "update_g"]
    /\ UNCHANGED <<TrainerVars, gen>>

\* (2) Update G network: zero_grad, pixel and perceptual loss on sr, the
\* discriminator's outputs on hr.detach() and sr, g_loss, backward()
GanUpdateG ==
    /\ gan.pc = "update_g"
    /\ gan' = [gan EXCEPT !.g_loss = GLossInputs(gan),
                          !.ev = Append(@, "loss_g"), !.pc = "step_g"]
    /\ UNCHANGED <<TrainerVars, gen>>

\* scaler.step(generator_optimizer); scaler.update()
GanStepG ==
    /\ gan.pc = "step_g"
    /\ \E applied \in BOOLEAN :
        gan' = [gan EXCEPT !.g_ver = IF applied THEN @ + 1 ELSE @,
                           !.ev = Append(@, "step_g"), !.pc = "iters"]
    /\ UNCHANGED <<TrainerVars, gen>>

\* iters = i + epoch * len(dataloader) + 1; the images every 1000 iters
\* (sr = generator(lr) again); break at total_iters, else the next batch or
\* the end of the dataloader.
GanIters ==
    /\ gan.pc = "iters"
    /\ LET iters == TrainIters(gan.i, gan.epoch, gan.len)
           last == iters = gan.total_iters \/ gan.i + 1 = gan.len
       IN  gan' = [gan EXCEPT
                     !.sr = IF iters % ImageEvery = 0 THEN Generate(gan) ELSE @,
                     !.i = IF last THEN @ ELSE @ + 1,
                     !.pc = IF last THEN "sched" ELSE "update_d"]
    /\ UNCHANGED <<TrainerVars, gen>>

\* discriminator_scheduler.step(); generator_scheduler.step(); return
GanSched ==
    /\ gan.pc = "sched"
    /\ gan' = [gan EXCEPT !.pc = "return"]
    /\ UNCHANGED <<TrainerVars, gen>>

NextGan ==
    \/ GanUpdateD
    \/ GanStepD
    \/ GanUpdateG
    \/ GanStepG
    \/ GanIters
    \/ GanSched

SpecGan == InitGan /\ [][NextGan]_vars

\* C12: in every iteration of train_gan the events are, in this order and
\* once each: the super-resolved batch is generated, the discriminator step
\* is attempted, the generator loss is computed, the generator step is
\* attempted; the generator loss is computed on the batch generated before
\* the discriminator step (by the generator as it was then, from the current
\* batch) and scored by the discriminator as it is after that step.
C12_GanStepOrder ==
    LET full == <<"generate", "step_d", "loss_g", "step_g">>
        lossOk ==
            /\ gan.g_loss.sr = gan.sr_first
            /\ gan.sr_first.batch = gan.i
            /\ gan.g_loss.d = gan.d_before + (IF gan.d_applied THEN 1 ELSE 0)
    IN  /\ gan.pc = "update_d" => gan.ev = (IF gan.i = 0 THEN << >> ELSE full)
        /\ gan.pc = "step_d" => gan.ev = SubSeq(full, 1, 1)
        /\ gan.pc = "update_g" => gan.ev = SubSeq(full, 1, 2)
        /\ gan.pc = "step_g" => gan.ev = SubSeq(full, 1, 3) /\ lossOk
        /\ gan.pc = "iters" => gan.ev = full /\ lossOk
        /\ gan.pc \in {"sched", "return"} => gan.ev = full

C12_Witness ==
    /\ gan.pc = "return"
    /\ gan.i = 1
    /\ gan.d_applied
    /\ gan.g_loss.d = gan.d_ver
    /\ gan.d_ver > gan.d_loss.d
    /\ gan.g_loss.sr.batch = 1

====
